---- MODULE Spec2Model ----
(***************************************************************************)
(* State-machine model of the persistence facade of the task-tracking bot  *)
(* (src/database.py, class DatabaseManager): the tasks and task_history    *)
(* tables, the per-call SQLAlchemy session (pending rows, commit,          *)
(* rollback) and the facade operations on tasks.                           *)
(***************************************************************************)
EXTENDS Integers, Sequences, FiniteSets, TLC

(***************************************************************************)
(* Bounds of the model.                                                    *)
(***************************************************************************)
MaxTasks == 2
MaxHist == 3
MaxNotifs == 2
MaxUsers == 2
MaxPasses == 2

(***************************************************************************)
(* Python values stored in columns and passed in the `updates` dict:       *)
(* None, a str, an int, a datetime (a clock reading).                      *)
(***************************************************************************)
NoneV == [k |-> "none", s |-> "", n |-> 0]
StrV(x) == [k |-> "str", s |-> x, n |-> 0]
IntV(i) == [k |-> "int", s |-> "", n |-> i]
DtV(t) == [k |-> "dt", s |-> "", n |-> t]

\* Python's str(v): a str is itself, an int its decimal digits, a datetime
\* its printed form.
PyStr(v) ==
  CASE v.k = "str" -> v.s
    [] v.k = "int" -> ToString(v.n)
    [] v.k = "dt" -> "datetime:" \o ToString(v.n)
    [] OTHER -> "None"

\* `str(x) if x is not None else None`
TextOrNone(v) == IF v.k = "none" THEN NoneV ELSE StrV(PyStr(v))

\* Python truthiness of a value (`if x`): None, 0 and "" are false.
Truthy(v) ==
  CASE v.k = "none" -> FALSE
    [] v.k = "int" -> v.n # 0
    [] v.k = "str" -> v.s # ""
    [] OTHER -> TRUE

(***************************************************************************)
(* Column constraints of the tasks table.                                  *)
(***************************************************************************)
Statuses == {"new", "in_progress", "completed", "overdue", "cancelled"}
Priorities == {"low", "medium", "high"}

\* The row passes the table's NOT NULL and CHECK constraints.
RowValid(row) ==
  /\ row.title.k = "str"
  /\ row.status \in Statuses
  /\ row.priority.k = "str" /\ row.priority.s \in Priorities

(***************************************************************************)
(* Inputs the operations are called with.                                  *)
(***************************************************************************)
UserIds == {1, 2}
TaskIds == 1..MaxTasks
\* the readings of the clock: deadline 1 has not passed at 1 and has at 2
Times == {1, 2}
\* update_task_status's (status, user_id): the five statuses the CHECK
\* constraint accepts and one it rejects
StatusInputs ==
  {<<"new", 1>>, <<"in_progress", 2>>, <<"completed", 1>>, <<"overdue", 2>>,
   <<"cancelled", 2>>, <<"archived", 1>>}
\* create_task's arguments: creators 1 and 2, with and without an assignee,
\* without a deadline or with one that passes when the clock moves on from
\* its start, and a priority the CHECK constraint accepts or rejects
CreateInputs ==
  {[title |-> StrV("a"), description |-> NoneV, creator_id |-> 1,
    assignee_id |-> NoneV, priority |-> StrV("medium"), deadline |-> DtV(1)],
   [title |-> StrV("a"), description |-> NoneV, creator_id |-> 2,
    assignee_id |-> IntV(1), priority |-> StrV("medium"), deadline |-> NoneV],
   [title |-> StrV("a"), description |-> NoneV, creator_id |-> 2,
    assignee_id |-> NoneV, priority |-> StrV("urgent"), deadline |-> DtV(1)]}
\* assign_task's (assignee_id, user_id)
AssignInputs == {<<2, 1>>}
\* create_user's arguments: an account, and a role the CHECK constraint
\* rejects
UserInputs ==
  {[telegram_id |-> 100, role |-> "admin"],
   [telegram_id |-> 101, role |-> "guest"]}
\* the arguments of the create_user calls that run side by side: three
\* accounts, one of them offered a second time with a role the CHECK
\* constraint rejects
RegisterInputs ==
  {[telegram_id |-> 100, role |-> "user"],
   [telegram_id |-> 101, role |-> "user"],
   [telegram_id |-> 102, role |-> "admin"],
   [telegram_id |-> 100, role |-> "guest"]}
\* the callers of create_user that run side by side
Callers == {1, 2}
\* create_notification's arguments: a reminder of task 1 for user 1, and a
\* type the CHECK constraint rejects
NotificationInputs ==
  {[user_id |-> 1, task_id |-> 1, type |-> "reminder", scheduled_at |-> 2],
   [user_id |-> 1, task_id |-> 1, type |-> "alert", scheduled_at |-> 2]}
\* the arguments of the create_notification calls the dispatch reads back:
\* reminders due at the first and at the second reading of the clock, and
\* a type the CHECK constraint rejects
ScheduleInputs ==
  {[user_id |-> 1, task_id |-> 1, type |-> "reminder", scheduled_at |-> 1],
   [user_id |-> 1, task_id |-> 1, type |-> "reminder", scheduled_at |-> 2],
   [user_id |-> 1, task_id |-> 1, type |-> "alert", scheduled_at |-> 1]}
\* where a storage failure strikes inside a call: not at all, at the flush
\* of the task row, at the INSERT of the history rows, at the COMMIT
Faults == {"none", "flush", "history", "commit"}
\* a call that flushes only inside its commit
CommitFaults == {"none", "commit"}

VARIABLES
  now,            \* the clock datetime.utcnow() reads
  users,          \* committed rows of the users table, by id
  tasks,          \* committed rows of the tasks table, by id
  notifications,  \* committed rows of the notifications table, by id
  history,        \* committed rows of task_history, in insertion order
  sessions,       \* the sessions get_db opened that are not closed yet
  pending,        \* the create_user calls between db.add and db.commit
  dispatch,       \* the dispatcher: the notifications of its tick, its log
  sched,          \* the schedulers: the position of each in its pass
  inflight,       \* the status calls between their read and their commit
  last            \* the call that ran last: operation, task id, outcome

\* the periodic jobs and the calls that run side by side with them
procs == <<dispatch, sched, inflight>>

vars == <<now, users, tasks, notifications, history, sessions, pending,
          dispatch, sched, inflight, last>>

(***************************************************************************)
(* The session of one call (get_db): rows added or changed and history     *)
(* entries added, none of them visible in the tables before commit.        *)
(***************************************************************************)
NewSession == [rows |-> <<>>, hist |-> <<>>]

\* db = self.get_db(): one more session is open
GetDb(n) == n + 1

\* a way out of the call that skips db.close()
Finally_Leaks(n) == n

\* finally: db.close(), on every way out of the call
Finally(n) == n - 1

\* db.add(task) / setattr on a loaded task: the row is pending in the session
SessionPut(tx, id, row) ==
  [tx EXCEPT !.rows = [i \in (DOMAIN tx.rows) \cup {id} |->
                         IF i = id THEN row ELSE tx.rows[i]]]

\* _add_task_history: one TaskHistory row added to the session
AddTaskHistory(tx, task_id, user_id, action, old_value, new_value) ==
  [tx EXCEPT !.hist = Append(tx.hist,
     [task_id |-> task_id, user_id |-> user_id, action |-> action,
      old_value |-> old_value, new_value |-> new_value, created_at |-> now])]

\* the tables after db.commit() of the session
CommitTasks(tx) ==
  [i \in (DOMAIN tasks) \cup (DOMAIN tx.rows) |->
     IF i \in DOMAIN tx.rows THEN tx.rows[i] ELSE tasks[i]]
\* a commit that keeps the entries of the session alone
CommitHistory_Replaces(tx) == tx.hist

CommitHistory(tx) == history \o tx.hist

\* db.commit() where db.flush() belongs: the flushed rows are committed
FlushTasks_Commits(tx) == CommitTasks(tx)

\* the committed tasks table after db.flush() of the session: the INSERT
\* runs inside the open transaction and commits nothing
FlushTasks(tx) == tasks

\* the tables after db.rollback(): what was committed before it
RollbackTasks(committed) == committed
RollbackHistory(committed) == committed

\* the statements of the session are accepted by the storage
SessionValid(tx) == \A i \in DOMAIN tx.rows : RowValid(tx.rows[i])

\* a call as its caller sees it: the operation, the task id passed (or, for
\* create_task, returned), the acting user passed, what it returned, the
\* rows it wrote, the ids of the rows a query returned (or the counts of a
\* statistics call), and the filter arguments a query was called with
Call(op, tid, uid, ret, n) ==
  [op |-> op, tid |-> tid, uid |-> uid, ret |-> ret, n |-> n, rows |-> <<>>,
   args |-> <<>>]
\* one item of a dict
Arg(key, val) == [key |-> key, val |-> val]

Init ==
  /\ now = 1
  /\ users = <<>>
  /\ tasks = <<>>
  /\ notifications = <<>>
  /\ history = <<>>
  /\ sessions = 0
  /\ pending = <<>>
  /\ dispatch = [queue |-> <<>>, outcome |-> "none", failed |-> {}]
  /\ sched = <<>>
  /\ inflight = <<>>
  /\ last = Call("init", 0, 0, "None", 0)

\* time passes between two calls
Tick ==
  /\ now + 1 \in Times
  /\ now' = now + 1
  /\ last' = Call("tick", 0, 0, "None", 0)
  /\ UNCHANGED <<tasks, history, users, notifications, sessions, pending, procs>>

(***************************************************************************)
(* create_task                                                             *)
(***************************************************************************)
CreatedText == "task created"

\* the id the autoincrement primary key gives the next row: rows are never
\* deleted, and a rolled-back INSERT leaves no row behind
NextTaskId == Cardinality(DOMAIN tasks) + 1

NewTaskRow(title, description, creator_id, assignee_id, priority, deadline) ==
  [title |-> title, description |-> description, creator_id |-> creator_id,
   assignee_id |-> assignee_id, status |-> "new", priority |-> priority,
   deadline |-> deadline, created_at |-> now, updated_at |-> now,
   completed_at |-> NoneV]

\* the session after db.add(task)
CreateTaskAdded(id, title, description, creator_id, assignee_id, priority, deadline) ==
  SessionPut(NewSession, id,
    NewTaskRow(title, description, creator_id, assignee_id, priority, deadline))

\* the 'created' entry never added to the session that commits
CreateTaskSession_NoHistory(id, title, description, creator_id, assignee_id, priority, deadline) ==
  CreateTaskAdded(id, title, description, creator_id, assignee_id, priority,
                  deadline)

\* the session after _add_task_history(db, task.id, creator_id, 'created', ...)
CreateTaskSession(id, title, description, creator_id, assignee_id, priority, deadline) ==
  AddTaskHistory(
    CreateTaskAdded(id, title, description, creator_id, assignee_id, priority,
                    deadline),
    id, creator_id, "created", NoneV, StrV(CreatedText))

CreateTask(title, description, creator_id, assignee_id, priority, deadline, fault) ==
  LET id == NextTaskId
      added == CreateTaskAdded(id, title, description, creator_id, assignee_id,
                               priority, deadline)
      tx == CreateTaskSession(id, title, description, creator_id, assignee_id,
                              priority, deadline)
  IN
  /\ Cardinality(DOMAIN tasks) < MaxTasks
  /\ Len(history) < MaxHist
  /\ IF fault = "flush" \/ ~SessionValid(added)
     THEN \* db.flush() raises: rollback, re-raise
          /\ tasks' = RollbackTasks(tasks)
          /\ history' = RollbackHistory(history)
          /\ last' = Call("create_task", 0, creator_id, "raised", 0)
     ELSE IF fault \in {"history", "commit"}
     THEN \* db.commit() raises after the flush: rollback, re-raise
          /\ tasks' = RollbackTasks(FlushTasks(added))
          /\ history' = RollbackHistory(history)
          /\ last' = Call("create_task", 0, creator_id, "raised", 0)
     ELSE /\ tasks' = CommitTasks(tx)
          /\ history' = CommitHistory(tx)
          /\ last' = Call("create_task", id, creator_id, "id", 1)
  /\ sessions' = Finally(GetDb(sessions))
  /\ UNCHANGED <<now, users, notifications, pending, procs>>

(***************************************************************************)
(* update_task_status                                                      *)
(***************************************************************************)
\* completed_at reset when the task leaves 'completed'
StatusRow_ClearsCompletedAt(row, status) ==
  [row EXCEPT !.status = status,
              !.updated_at = now,
              !.completed_at = IF status = "completed" THEN DtV(now) ELSE NoneV]

\* the loaded task after the assignments of update_task_status
StatusRow(row, status) ==
  [row EXCEPT !.status = status,
              !.updated_at = now,
              !.completed_at = IF status = "completed" THEN DtV(now) ELSE @]

\* old_status read after task.status is assigned
UpdateTaskStatusSession_OldAfterSet(task_id, status, user_id) ==
  AddTaskHistory(
    SessionPut(NewSession, task_id, StatusRow(tasks[task_id], status)),
    task_id, user_id, "status_changed", StrV(status), StrV(status))

UpdateTaskStatusSession(task_id, status, user_id) ==
  AddTaskHistory(
    SessionPut(NewSession, task_id, StatusRow(tasks[task_id], status)),
    task_id, user_id, "status_changed", StrV(tasks[task_id].status), StrV(status))

\* a failing call that returns False with its writes kept
Finish_KeepsWrites(op, task_id, user_id, tx, fault) ==
  /\ tasks' = CommitTasks(tx)
  /\ history' = CommitHistory(tx)
  /\ last' = Call(op, task_id, user_id,
                   IF fault = "none" /\ SessionValid(tx)
                   THEN "True" ELSE "False",
                   IF fault = "none" /\ SessionValid(tx)
                   THEN Len(tx.hist) ELSE 0)

\* the end of every updating call: commit and True, or rollback and False
Finish(op, task_id, user_id, tx, fault) ==
  IF fault = "none" /\ SessionValid(tx)
  THEN /\ tasks' = CommitTasks(tx)
       /\ history' = CommitHistory(tx)
       /\ last' = Call(op, task_id, user_id, "True", Len(tx.hist))
  ELSE /\ tasks' = RollbackTasks(tasks)
       /\ history' = RollbackHistory(history)
       /\ last' = Call(op, task_id, user_id, "False", 0)

\* `if not task: return False`
NotFound(op, task_id, user_id) ==
  /\ last' = Call(op, task_id, user_id, "False", 0)
  /\ UNCHANGED <<tasks, history>>

UpdateTaskStatus(task_id, status, user_id, fault) ==
  /\ Len(history) < MaxHist
  /\ IF task_id \notin DOMAIN tasks
     THEN NotFound("update_task_status", task_id, user_id)
     ELSE Finish("update_task_status", task_id, user_id,
                 UpdateTaskStatusSession(task_id, status, user_id), fault)
  /\ sessions' = Finally(GetDb(sessions))
  /\ UNCHANGED <<now, users, notifications, pending, procs>>

(***************************************************************************)
(* cancel_task                                                             *)
(***************************************************************************)
CancelRow(row) == [row EXCEPT !.status = "cancelled", !.updated_at = now]

CancelTaskSession(task_id, user_id) ==
  AddTaskHistory(
    SessionPut(NewSession, task_id, CancelRow(tasks[task_id])),
    task_id, user_id, "status_changed", StrV(tasks[task_id].status),
    StrV("cancelled"))

CancelTask(task_id, user_id, fault) ==
  /\ Len(history) < MaxHist
  /\ IF task_id \notin DOMAIN tasks
     THEN NotFound("cancel_task", task_id, user_id)
     ELSE Finish("cancel_task", task_id, user_id,
                 CancelTaskSession(task_id, user_id), fault)
  /\ sessions' = Finally(GetDb(sessions))
  /\ UNCHANGED <<now, users, notifications, pending, procs>>

(***************************************************************************)
(* assign_task                                                             *)
(***************************************************************************)
AssignRow(row, assignee_id) ==
  [row EXCEPT !.assignee_id = IntV(assignee_id), !.updated_at = now]

\* old_assignee read after task.assignee_id is assigned
AssignTaskSession_OldAfterSet(task_id, assignee_id, user_id) ==
  AddTaskHistory(
    SessionPut(NewSession, task_id, AssignRow(tasks[task_id], assignee_id)),
    task_id, user_id, "assigned",
    StrV(PyStr(IntV(assignee_id))), StrV(PyStr(IntV(assignee_id))))

AssignTaskSession(task_id, assignee_id, user_id) ==
  AddTaskHistory(
    SessionPut(NewSession, task_id, AssignRow(tasks[task_id], assignee_id)),
    task_id, user_id, "assigned",
    IF Truthy(tasks[task_id].assignee_id)
      THEN StrV(PyStr(tasks[task_id].assignee_id)) ELSE NoneV,
    StrV(PyStr(IntV(assignee_id))))

AssignTask(task_id, assignee_id, user_id, fault) ==
  /\ Len(history) < MaxHist
  /\ IF task_id \notin DOMAIN tasks
     THEN NotFound("assign_task", task_id, user_id)
     ELSE Finish("assign_task", task_id, user_id,
                 AssignTaskSession(task_id, assignee_id, user_id), fault)
  /\ sessions' = Finally(GetDb(sessions))
  /\ UNCHANGED <<now, users, notifications, pending, procs>>

(***************************************************************************)
(* update_task_fields                                                      *)
(***************************************************************************)
AllowedFields == {"title", "description", "priority", "deadline", "assignee_id"}

\* the dict passed on as it is, no key dropped
Changes_Unfiltered(updates) == updates

\* changes = {k: v for k, v in updates.items() if k in allowed_fields}
Changes(updates) == SelectSeq(updates, LAMBDA kv : kv.key \in AllowedFields)

\* getattr(task, field)
GetAttr(row, field) ==
  CASE field = "title" -> row.title
    [] field = "description" -> row.description
    [] field = "priority" -> row.priority
    [] field = "deadline" -> row.deadline
    [] field = "assignee_id" -> row.assignee_id
    [] field = "status" -> StrV(row.status)
    [] field = "creator_id" -> IntV(row.creator_id)
    [] field = "completed_at" -> row.completed_at

\* setattr(task, field, value)
SetAttr(row, field, value) ==
  CASE field = "title" -> [row EXCEPT !.title = value]
    [] field = "description" -> [row EXCEPT !.description = value]
    [] field = "priority" -> [row EXCEPT !.priority = value]
    [] field = "deadline" -> [row EXCEPT !.deadline = value]
    [] field = "assignee_id" -> [row EXCEPT !.assignee_id = value]
    [] field = "status" -> [row EXCEPT !.status = value.s]
    [] field = "creator_id" -> [row EXCEPT !.creator_id = value.n]
    [] field = "completed_at" -> [row EXCEPT !.completed_at = value]

\* the loaded task after the first i assignments of the loop over changes
RECURSIVE FieldsRow(_, _, _)
FieldsRow(row, changes, i) ==
  IF i = 0 THEN row
  ELSE SetAttr(FieldsRow(row, changes, i - 1), changes[i].key, changes[i].val)

\* old_value read after setattr
RECURSIVE FieldsHistory_OldAfterSet(_, _, _, _, _)
FieldsHistory_OldAfterSet(tx, task_id, user_id, changes, i) ==
  IF i = 0 THEN tx
  ELSE AddTaskHistory(
         FieldsHistory_OldAfterSet(tx, task_id, user_id, changes, i - 1),
         task_id, user_id, changes[i].key \o "_updated",
         TextOrNone(GetAttr(FieldsRow(tasks[task_id], changes, i),
                            changes[i].key)),
         TextOrNone(changes[i].val))

\* the session after the first i turns of the loop over changes
RECURSIVE FieldsHistory(_, _, _, _, _)
FieldsHistory(tx, task_id, user_id, changes, i) ==
  IF i = 0 THEN tx
  ELSE AddTaskHistory(
         FieldsHistory(tx, task_id, user_id, changes, i - 1),
         task_id, user_id, changes[i].key \o "_updated",
         TextOrNone(GetAttr(FieldsRow(tasks[task_id], changes, i - 1),
                            changes[i].key)),
         TextOrNone(changes[i].val))

UpdateTaskFieldsSession(task_id, changes, user_id) ==
  FieldsHistory(
    SessionPut(NewSession, task_id,
      [FieldsRow(tasks[task_id], changes, Len(changes)) EXCEPT !.updated_at = now]),
    task_id, user_id, changes, Len(changes))

\* `if not changes: return True`, before the task is looked up
NoChanges(updates) == Changes(updates) = <<>>

UpdateTaskFields(task_id, updates, user_id, fault) ==
  LET changes == Changes(updates) IN
  /\ Len(history) + Len(changes) <= MaxHist
  /\ IF NoChanges(updates)
     THEN /\ last' = Call("update_task_fields", task_id, user_id, "True", 0)
          /\ UNCHANGED <<tasks, history>>
     ELSE IF task_id \notin DOMAIN tasks
     THEN NotFound("update_task_fields", task_id, user_id)
     ELSE Finish("update_task_fields", task_id, user_id,
                 UpdateTaskFieldsSession(task_id, changes, user_id), fault)
  /\ sessions' = IF NoChanges(updates) THEN sessions
                  ELSE Finally(GetDb(sessions))
  /\ UNCHANGED <<now, users, notifications, pending, procs>>

(***************************************************************************)
(* update_overdue_tasks                                                    *)
(***************************************************************************)
\* the filter of get_overdue_tasks put where the sweep's belongs: overdue
\* tasks are matched again
SweepExcluded_NoOverdue == {"completed", "cancelled"}

\* a filter that lets the sweep take the cancelled tasks
SweepExcluded_NoCancelled == {"completed", "overdue"}

\* Task.status.not_in([...]) of the bulk UPDATE
SweepExcluded == {"completed", "cancelled", "overdue"}

\* a status filter that matches new tasks only
OverdueMatch_OnlyNew(rows, t) ==
  {i \in DOMAIN rows :
     /\ rows[i].deadline.k = "dt"
     /\ rows[i].deadline.n < t
     /\ rows[i].status = "new"}

\* the rows the bulk UPDATE's filter matches
OverdueMatch(rows, t) ==
  {i \in DOMAIN rows :
     /\ rows[i].deadline.k = "dt"
     /\ rows[i].deadline.n < t
     /\ rows[i].status \notin SweepExcluded}

\* a bulk UPDATE that stamps the rows and leaves their status
OverdueRow_KeepsStatus(row) == [row EXCEPT !.updated_at = now]

\* update({'status': 'overdue', 'updated_at': datetime.utcnow()})
OverdueRow(row) == [row EXCEPT !.status = "overdue", !.updated_at = now]

\* a bulk UPDATE that stamps updated_at on every row
OverdueUpdate_StampsAll(rows, t) ==
  [i \in DOMAIN rows |->
     IF i \in OverdueMatch(rows, t) THEN OverdueRow(rows[i])
     ELSE [rows[i] EXCEPT !.updated_at = now]]

\* the table after the bulk UPDATE
OverdueUpdate(rows, t) ==
  [i \in DOMAIN rows |->
     IF i \in OverdueMatch(rows, t) THEN OverdueRow(rows[i]) ELSE rows[i]]

UpdateOverdueTasks(fault) ==
  /\ IF fault = "none"
     THEN /\ tasks' = OverdueUpdate(tasks, now)
          /\ last' = Call("update_overdue_tasks", 0, 0, "ok",
                          Cardinality(OverdueMatch(tasks, now)))
     ELSE /\ tasks' = RollbackTasks(tasks)
          /\ last' = Call("update_overdue_tasks", 0, 0, "failed", 0)
  /\ sessions' = Finally(GetDb(sessions))
  /\ UNCHANGED <<now, history, users, notifications, pending, procs>>

(***************************************************************************)
(* create_user                                                             *)
(***************************************************************************)
Roles == {"admin", "user"}

\* a users table without the UNIQUE constraint on telegram_id
UserRowValid_NoUnique(telegram_id, role) == role \in Roles

\* the INSERT passes the UNIQUE constraint on telegram_id and the CHECK
\* constraint on role
UserRowValid(telegram_id, role) ==
  /\ \A i \in DOMAIN users : users[i].telegram_id # telegram_id
  /\ role \in Roles

NewUserRow(telegram_id, role) ==
  [telegram_id |-> telegram_id, role |-> role, is_active |-> TRUE,
   registered_at |-> now, last_activity |-> now]

\* what create_user returns: True after the commit, False from the
\* `except IntegrityError` clause and from the `except Exception` clause
CreateUserReturn(telegram_id, role, fault) ==
  IF fault = "none" /\ UserRowValid(telegram_id, role) THEN "True" ELSE "False"

\* db.commit() of the session that holds the new user, and what follows it
CreateUserCommit(telegram_id, role, fault) ==
  /\ Len(users) < MaxUsers
  /\ IF CreateUserReturn(telegram_id, role, fault) = "True"
     THEN /\ users' = Append(users, NewUserRow(telegram_id, role))
          /\ last' = Call("create_user", 0, 0, "True", 1)
     ELSE /\ users' = users
          /\ last' = Call("create_user", 0, 0, "False", 0)

CreateUser(telegram_id, role, fault) ==
  /\ CreateUserCommit(telegram_id, role, fault)
  /\ sessions' = Finally(GetDb(sessions))
  /\ UNCHANGED <<now, tasks, notifications, history, pending, procs>>

\* a caller enters create_user: get_db, User(...), db.add(user); nothing of
\* it is in the table yet
BeginCreateUser(p, telegram_id, role) ==
  /\ p \notin DOMAIN pending
  /\ pending' = [q \in (DOMAIN pending) \cup {p} |->
                   IF q = p THEN [telegram_id |-> telegram_id, role |-> role]
                   ELSE pending[q]]
  /\ sessions' = GetDb(sessions)
  /\ UNCHANGED <<now, users, tasks, notifications, history, last, procs>>

\* the caller goes on: db.commit(), the return, db.close()
EndCreateUser(p, fault) ==
  /\ p \in DOMAIN pending
  /\ CreateUserCommit(pending[p].telegram_id, pending[p].role, fault)
  /\ pending' = [q \in (DOMAIN pending) \ {p} |-> pending[q]]
  /\ sessions' = Finally(sessions)
  /\ UNCHANGED <<now, tasks, notifications, history, procs>>

(***************************************************************************)
(* update_user_activity                                                    *)
(***************************************************************************)
\* db.query(User).filter(User.telegram_id == telegram_id): the ids matched
UsersByTelegramId(telegram_id) ==
  {i \in DOMAIN users : users[i].telegram_id = telegram_id}

UpdateUserActivity(telegram_id, fault) ==
  /\ IF UsersByTelegramId(telegram_id) = {}
     THEN /\ users' = users
          /\ last' = Call("update_user_activity", 0, 0, "None", 0)
     ELSE IF fault = "none"
     THEN /\ users' = [i \in DOMAIN users |->
                        IF i \in UsersByTelegramId(telegram_id)
                        THEN [users[i] EXCEPT !.last_activity = now]
                        ELSE users[i]]
          /\ last' = Call("update_user_activity", 0, 0, "None", 1)
     ELSE \* no except clause: the failure leaves the call as an exception
          /\ users' = users
          /\ last' = Call("update_user_activity", 0, 0, "raised", 0)
  /\ sessions' = Finally(GetDb(sessions))
  /\ UNCHANGED <<now, tasks, notifications, history, pending, procs>>

(***************************************************************************)
(* create_notification, mark_notification_sent                             *)
(***************************************************************************)
NotificationTypes == {"reminder", "assignment", "deadline", "completed"}

NewNotificationRow(user_id, task_id, type, scheduled_at) ==
  [user_id |-> user_id, task_id |-> task_id, type |-> type,
   is_sent |-> FALSE, scheduled_at |-> scheduled_at, sent_at |-> NoneV,
   created_at |-> now]

\* a UNIQUE constraint on (task_id, type) beside the CHECK on type
NotificationRowValid_Unique(rows, row) ==
  /\ row.type \in NotificationTypes
  /\ \A i \in DOMAIN rows :
       ~(rows[i].task_id = row.task_id /\ rows[i].type = row.type)

\* the constraints of the notifications table: check_notification_type, and
\* no uniqueness beside the primary key
NotificationRowValid(rows, row) == row.type \in NotificationTypes

CreateNotificationCall(user_id, task_id, type, scheduled_at, fault) ==
  /\ Len(notifications) < MaxNotifs
  /\ IF /\ fault = "none"
        /\ NotificationRowValid(notifications,
              NewNotificationRow(user_id, task_id, type, scheduled_at))
     THEN /\ notifications' = Append(notifications,
               NewNotificationRow(user_id, task_id, type, scheduled_at))
          /\ last' = Call("create_notification", task_id, user_id, "id", 1)
     ELSE /\ notifications' = notifications
          /\ last' = Call("create_notification", task_id, user_id, "raised", 0)
  /\ sessions' = Finally(GetDb(sessions))
  /\ UNCHANGED <<now, users, tasks, history, pending>>

CreateNotification(user_id, task_id, type, scheduled_at, fault) ==
  /\ CreateNotificationCall(user_id, task_id, type, scheduled_at, fault)
  /\ UNCHANGED procs

SentRow(row) == [row EXCEPT !.is_sent = TRUE, !.sent_at = DtV(now)]

\* an UPDATE with no filter on the id
NotificationById_All(rows, notification_id) == DOMAIN rows

\* db.query(Notification).filter(Notification.id == notification_id).first()
NotificationById(rows, notification_id) == {notification_id} \cap DOMAIN rows

MarkNotificationSentCall(notification_id, fault) ==
  /\ IF NotificationById(notifications, notification_id) = {}
     THEN /\ notifications' = notifications
          /\ last' = Call("mark_notification_sent", 0, 0, "None", 0)
     ELSE IF fault = "none"
     THEN /\ notifications' =
               [i \in DOMAIN notifications |->
                  IF i \in NotificationById(notifications, notification_id)
                  THEN SentRow(notifications[i])
                  ELSE notifications[i]]
          /\ last' = Call("mark_notification_sent", 0, 0, "None", 1)
     ELSE \* no except clause: the failure leaves the call as an exception
          /\ notifications' = notifications
          /\ last' = Call("mark_notification_sent", 0, 0, "raised", 0)
  /\ sessions' = Finally(GetDb(sessions))
  /\ UNCHANGED <<now, users, tasks, history, pending>>

MarkNotificationSent(notification_id, fault) ==
  /\ MarkNotificationSentCall(notification_id, fault)
  /\ UNCHANGED procs

(***************************************************************************)
(* get_pending_notifications, get_task_by_id                               *)
(***************************************************************************)
\* a filter on is_sent alone
PendingMatch_AllUnsent(rows, t) ==
  {i \in DOMAIN rows : ~rows[i].is_sent}

\* filter(and_(Notification.is_sent == False,
\*             Notification.scheduled_at <= datetime.utcnow()))
PendingMatch(rows, t) ==
  {i \in DOMAIN rows : ~rows[i].is_sent /\ rows[i].scheduled_at <= t}

\* order_by(Notification.scheduled_at): the orders the storage may return
\* the rows S in; rows with equal scheduled_at come in any order
OrderedByScheduledAt(rows, S) ==
  {r \in [1..Cardinality(S) -> S] :
     /\ \A j, k \in 1..Cardinality(S) : r[j] = r[k] => j = k
     /\ \A j, k \in 1..Cardinality(S) :
          j < k => rows[r[j]].scheduled_at <= rows[r[k]].scheduled_at}

\* a query as its caller sees it: the ids of the rows in the list returned
Rows(op, r) == [Call(op, 0, 0, "list", 0) EXCEPT !.rows = r]

GetPendingNotificationsCall(fault) ==
  /\ IF fault = "none"
     THEN \E r \in OrderedByScheduledAt(notifications,
                                        PendingMatch(notifications, now)) :
            last' = Rows("get_pending_notifications", r)
     ELSE \* no except clause: the failure leaves the call as an exception
          last' = Call("get_pending_notifications", 0, 0, "raised", 0)
  /\ sessions' = Finally(GetDb(sessions))
  /\ UNCHANGED <<now, users, tasks, notifications, history, pending>>

GetPendingNotifications(fault) ==
  /\ GetPendingNotificationsCall(fault)
  /\ UNCHANGED procs

(***************************************************************************)
(* exists_notification_by_task_type                                        *)
(***************************************************************************)
\* a count over the unsent notifications only
ExistsNotificationByTaskType_Unsent(rows, task_id, notif_type) ==
  Cardinality({i \in DOMAIN rows :
                 /\ ~rows[i].is_sent
                 /\ rows[i].task_id = task_id
                 /\ rows[i].type = notif_type}) > 0

\* count = db.query(Notification).filter(and_(task_id ==, type ==)).count()
\* return count > 0
ExistsNotificationByTaskType(rows, task_id, notif_type) ==
  Cardinality({i \in DOMAIN rows :
                 rows[i].task_id = task_id /\ rows[i].type = notif_type}) > 0

ExistsNotificationByTaskTypeCall(task_id, notif_type, fault) ==
  /\ IF fault # "none"
     THEN \* no except clause: the failure leaves the call as an exception
          last' = Call("exists_notification_by_task_type", task_id, 0,
                       "raised", 0)
     ELSE IF ExistsNotificationByTaskType(notifications, task_id, notif_type)
     THEN last' = Call("exists_notification_by_task_type", task_id, 0,
                       "True", 0)
     ELSE last' = Call("exists_notification_by_task_type", task_id, 0,
                       "False", 0)
  /\ sessions' = Finally(GetDb(sessions))
  /\ UNCHANGED <<now, users, tasks, notifications, history, pending>>

GetTaskById(task_id, fault) ==
  /\ IF fault # "none"
     THEN \* no except clause: the failure leaves the call as an exception
          last' = Call("get_task_by_id", task_id, 0, "raised", 0)
     ELSE IF task_id \notin DOMAIN tasks
     THEN last' = Call("get_task_by_id", task_id, 0, "None", 0)
     ELSE last' = Call("get_task_by_id", task_id, 0, "dict", 0)
  /\ sessions' = Finally(GetDb(sessions))
  /\ UNCHANGED <<now, users, tasks, notifications, history, pending, procs>>

(***************************************************************************)
(* The read queries over tasks: get_tasks_by_user, get_all_tasks,          *)
(* search_tasks, get_overdue_tasks                                         *)
(***************************************************************************)
\* the orders a result set S can be listed in
Perms(S) ==
  {r \in [1..Cardinality(S) -> S] :
     \A j, k \in 1..Cardinality(S) : r[j] = r[k] => j = k}

\* ORDER BY deadline ASC with no NULLS LAST: SQLite lists the NULLs first
SortsBefore_NullsFirst(a, b) ==
  \/ a.deadline.k = "none" /\ b.deadline.k = "dt"
  \/ a.deadline.k = "dt" /\ b.deadline.k = "dt"
       /\ a.deadline.n < b.deadline.n
  \/ a.deadline = b.deadline /\ a.created_at > b.created_at

\* order_by(Task.deadline.asc().nulls_last(), Task.created_at.desc()):
\* row a has to come before row b
SortsBefore(a, b) ==
  \/ a.deadline.k = "dt" /\ b.deadline.k = "none"
  \/ a.deadline.k = "dt" /\ b.deadline.k = "dt"
       /\ a.deadline.n < b.deadline.n
  \/ a.deadline = b.deadline /\ a.created_at > b.created_at

\* the orders the storage may return the rows S in under that ORDER BY;
\* rows equal in both keys come in any order
OrderedByDeadline(rows, S) ==
  {r \in Perms(S) :
     \A j, k \in 1..Cardinality(S) :
       j < k => ~SortsBefore(rows[r[k]], rows[r[j]])}

\* .limit(limit).offset(offset) on an ordered result
Page(r, limit, offset) ==
  IF offset >= Len(r) THEN <<>>
  ELSE SubSeq(r, offset + 1,
              IF offset + limit < Len(r) THEN offset + limit ELSE Len(r))

\* a query with its filter arguments, as its caller sees it
Query(op, uid, args, r) ==
  [Call(op, 0, uid, "list", 0) EXCEPT !.rows = r, !.args = args]

\* filter(Task.assignee_id == user_id), and `if status:` filter(status ==)
TasksByUserMatch(rows, user_id, status) ==
  {i \in DOMAIN rows :
     /\ rows[i].assignee_id = IntV(user_id)
     /\ Truthy(status) => rows[i].status = status.s}

GetTasksByUser(user_id, status, fault) ==
  /\ IF fault = "none"
     THEN \E r \in OrderedByDeadline(tasks,
                      TasksByUserMatch(tasks, user_id, status)) :
            last' = Query("get_tasks_by_user", user_id, <<status>>, r)
     ELSE \* no except clause: the failure leaves the call as an exception
          last' = Call("get_tasks_by_user", 0, user_id, "raised", 0)
  /\ sessions' = Finally(GetDb(sessions))
  /\ UNCHANGED <<now, users, tasks, notifications, history, pending, procs>>

\* `if status:` filter(Task.status == status)
AllTasksMatch(rows, status) ==
  {i \in DOMAIN rows : Truthy(status) => rows[i].status = status.s}

GetAllTasks(status, limit, offset, fault) ==
  /\ IF fault # "none"
     THEN \* no except clause: the failure leaves the call as an exception
          last' = Call("get_all_tasks", 0, 0, "raised", 0)
     ELSE IF Truthy(limit)
     THEN \* query.limit(limit).offset(offset) comes before
          \* query.order_by(...): the ORM refuses order_by on a query
          \* that has a LIMIT, or emits the one statement SQL has for
          \* the two, ORDER BY before LIMIT
          \/ last' = Call("get_all_tasks", 0, 0, "raised", 0)
          \/ \E r \in OrderedByDeadline(tasks, AllTasksMatch(tasks, status)) :
               last' = Query("get_all_tasks", 0, <<status, limit>>,
                             Page(r, limit.n, offset))
     ELSE \E r \in OrderedByDeadline(tasks, AllTasksMatch(tasks, status)) :
            last' = Query("get_all_tasks", 0, <<status, limit>>, r)
  /\ sessions' = Finally(GetDb(sessions))
  /\ UNCHANGED <<now, users, tasks, notifications, history, pending, procs>>

\* str.lower on the letters of the texts at hand
Lower(x) == CASE x = "A" -> "a" [] x = "B" -> "b" [] OTHER -> x

\* column.ilike('%' + q + '%') for texts of at most one letter: a NULL
\* column matches nothing, an empty q every text
ILike(v, q) == v.k = "str" /\ (q = "" \/ Lower(v.s) = Lower(q))

\* the filters of search_tasks, each applied when its argument is truthy
SearchMatch(rows, c) ==
  {i \in DOMAIN rows :
     /\ c.query_text # "" =>
          ILike(rows[i].title, c.query_text)
            \/ ILike(rows[i].description, c.query_text)
     /\ Truthy(c.status) => rows[i].status = c.status.s
     /\ Truthy(c.priority) => rows[i].priority = c.priority
     /\ Truthy(c.assignee_id) => rows[i].assignee_id = c.assignee_id
     /\ Truthy(c.creator_id) => rows[i].creator_id = c.creator_id.n}

SearchTasks(c, fault) ==
  /\ IF fault = "none"
     THEN \E r \in OrderedByDeadline(tasks, SearchMatch(tasks, c)) :
            last' = Query("search_tasks", 0, <<c>>,
                          Page(r, c.limit, c.offset))
     ELSE \* no except clause: the failure leaves the call as an exception
          last' = Call("search_tasks", 0, 0, "raised", 0)
  /\ sessions' = Finally(GetDb(sessions))
  /\ UNCHANGED <<now, users, tasks, notifications, history, pending, procs>>

\* filter(and_(Task.deadline < datetime.utcnow(),
\*             Task.status.not_in(['completed', 'cancelled'])))
OverdueTasksMatch(rows, t) ==
  {i \in DOMAIN rows :
     /\ rows[i].deadline.k = "dt" /\ rows[i].deadline.n < t
     /\ rows[i].status \notin {"completed", "cancelled"}}

\* .all() on a query with no order_by: the storage lists the rows in the
\* order it likes
GetOverdueTasks(fault) ==
  /\ IF fault = "none"
     THEN \E r \in Perms(OverdueTasksMatch(tasks, now)) :
            last' = Query("get_overdue_tasks", 0, <<>>, r)
     ELSE \* no except clause: the failure leaves the call as an exception
          last' = Call("get_overdue_tasks", 0, 0, "raised", 0)
  /\ sessions' = Finally(GetDb(sessions))
  /\ UNCHANGED <<now, users, tasks, notifications, history, pending, procs>>

(***************************************************************************)
(* get_user_stats, get_general_stats                                       *)
(***************************************************************************)
\* a count of the active tasks that takes the overdue ones in
ActiveStatuses_WithOverdue == {"new", "in_progress", "overdue"}

\* Task.status.in_(['new', 'in_progress'])
ActiveStatuses == {"new", "in_progress"}

\* total_tasks, completed_tasks, overdue_tasks, active_tasks over the tasks S
TaskCounts(rows, S) ==
  <<Cardinality(S),
    Cardinality({i \in S : rows[i].status = "completed"}),
    Cardinality({i \in S : rows[i].status = "overdue"}),
    Cardinality({i \in S : rows[i].status \in ActiveStatuses})>>

\* filter(Task.assignee_id == user_id)
AssignedTo(rows, user_id) ==
  {i \in DOMAIN rows : rows[i].assignee_id = IntV(user_id)}

GetUserStats(user_id, fault) ==
  /\ IF fault = "none"
     THEN last' = [Call("get_user_stats", 0, user_id, "dict", 0) EXCEPT
                    !.rows = TaskCounts(tasks, AssignedTo(tasks, user_id))]
     ELSE \* no except clause: the failure leaves the call as an exception
          last' = Call("get_user_stats", 0, user_id, "raised", 0)
  /\ sessions' = Finally(GetDb(sessions))
  /\ UNCHANGED <<now, users, tasks, notifications, history, pending, procs>>

\* the four task counts, then active_users (distinct non-null assignees)
\* and total_users (users with is_active)
GetGeneralStats(fault) ==
  /\ IF fault = "none"
     THEN last' = [Call("get_general_stats", 0, 0, "dict", 0) EXCEPT
                    !.rows = TaskCounts(tasks, DOMAIN tasks) \o
                      <<Cardinality({tasks[i].assignee_id.n :
                           i \in {j \in DOMAIN tasks :
                                    tasks[j].assignee_id.k = "int"}}),
                        Cardinality({i \in DOMAIN users :
                                       users[i].is_active})>>]
     ELSE \* no except clause: the failure leaves the call as an exception
          last' = Call("get_general_stats", 0, 0, "raised", 0)
  /\ sessions' = Finally(GetDb(sessions))
  /\ UNCHANGED <<now, users, tasks, notifications, history, pending, procs>>

(***************************************************************************)
(* The `updates` dicts update_task_fields is called with: at most two      *)
(* keys, permitted or not.                                                 *)
(***************************************************************************)
UpdateInputs ==
  {<<>>,
   <<Arg("title", StrV("a"))>>,
   <<Arg("title", StrV("b"))>>,
   <<Arg("priority", StrV("urgent"))>>,
   <<Arg("status", StrV("completed")), Arg("description", StrV("d"))>>,
   <<Arg("creator_id", IntV(2)), Arg("completed_at", DtV(1))>>,
   <<Arg("deadline", NoneV), Arg("assignee_id", IntV(2))>>}

\* create_task called with the arguments c
CreateTaskCall(c, fault) ==
  CreateTask(c.title, c.description, c.creator_id, c.assignee_id, c.priority,
             c.deadline, fault)

(***************************************************************************)
(* update_task_status and cancel_task side by side with the sweep: a call  *)
(* loads the task and assigns its attributes, and commits later.           *)
(***************************************************************************)
\* the UPDATE the session flushes at commit: the attributes whose assigned
\* value differs from the loaded one, on the row as it is committed by then
MergeDirty(current, loaded, assigned) ==
  [f \in DOMAIN current |->
     IF assigned[f] # loaded[f] THEN assigned[f] ELSE current[f]]

InflightSet(p, rec) ==
  [q \in (DOMAIN inflight) \cup {p} |-> IF q = p THEN rec ELSE inflight[q]]

\* task = db.query(Task)...first(); old_status = task.status; the
\* assignments to the loaded task (cancel_task assigns 'cancelled')
BeginStatus(p, op, task_id, status, user_id) ==
  /\ p \notin DOMAIN inflight
  /\ task_id \in DOMAIN tasks
  /\ inflight' = InflightSet(p,
       [op |-> op, task_id |-> task_id, status |-> status,
        user_id |-> user_id, loaded |-> tasks[task_id],
        assigned |-> IF op = "cancel_task" THEN CancelRow(tasks[task_id])
                     ELSE StatusRow(tasks[task_id], status)])
  /\ sessions' = GetDb(sessions)
  /\ UNCHANGED <<now, users, tasks, notifications, history, pending,
                 dispatch, sched, last>>

\* the session of the call at its commit
StatusCommitSession(c) ==
  AddTaskHistory(
    SessionPut(NewSession, c.task_id,
               MergeDirty(tasks[c.task_id], c.loaded, c.assigned)),
    c.task_id, c.user_id, "status_changed", StrV(c.loaded.status),
    StrV(c.status))

\* _add_task_history, db.commit(), the return, db.close()
EndStatus(p, fault) ==
  /\ p \in DOMAIN inflight
  /\ Len(history) < MaxHist
  /\ Finish(inflight[p].op, inflight[p].task_id, inflight[p].user_id,
            StatusCommitSession(inflight[p]), fault)
  /\ inflight' = [q \in (DOMAIN inflight) \ {p} |-> inflight[q]]
  /\ sessions' = Finally(sessions)
  /\ UNCHANGED <<now, users, notifications, pending, dispatch, sched>>

(***************************************************************************)
(* The dispatch tick (section 4.3, dispatch policy): fetch the due         *)
(* notifications, attempt the delivery of each through the external        *)
(* channel, mark the delivered ones sent, log the failures and go on.      *)
(***************************************************************************)
\* the ids in a list of rows
Ids(q) == {q[i] : i \in DOMAIN q}

\* the tick starts: the dispatcher fetches the notifications that are due
DispatchTick(fault) ==
  /\ dispatch.queue = <<>>
  /\ GetPendingNotificationsCall(fault)
  /\ dispatch' = [dispatch EXCEPT
                    !.queue = IF last'.ret = "list" THEN last'.rows ELSE <<>>]
  /\ UNCHANGED <<sched, inflight>>

\* the delivery of the first notification of the list is attempted: the
\* external channel accepts the message or fails
DispatchSend(ok) ==
  /\ dispatch.queue # <<>>
  /\ dispatch.outcome = "none"
  /\ dispatch' = [dispatch EXCEPT !.outcome = IF ok THEN "ok" ELSE "failed"]
  /\ UNCHANGED <<now, users, tasks, notifications, history, sessions,
                 pending, sched, inflight, last>>

\* the delivery succeeded: the notification is marked sent, and the
\* dispatcher goes on with the rest whatever the storage answers
DispatchMark(fault) ==
  /\ dispatch.queue # <<>>
  /\ dispatch.outcome = "ok"
  /\ MarkNotificationSentCall(Head(dispatch.queue), fault)
  /\ dispatch' = [dispatch EXCEPT !.queue = Tail(@), !.outcome = "none"]
  /\ UNCHANGED <<sched, inflight>>

\* the delivery failed: the failure is logged, the notification is left as
\* it is, and the dispatcher goes on with the rest
DispatchSkip ==
  /\ dispatch.queue # <<>>
  /\ dispatch.outcome = "failed"
  /\ dispatch' = [queue |-> Tail(dispatch.queue), outcome |-> "none",
                  failed |-> dispatch.failed \cup {Head(dispatch.queue)}]
  /\ UNCHANGED <<now, users, tasks, notifications, history, sessions,
                 pending, sched, inflight, last>>

(***************************************************************************)
(* The scheduling pass (section 4.3, reminder creation policy): for every  *)
(* task and every lead time whose scheduled_at is still in the future, the *)
(* scheduler asks whether a reminder exists for the task and creates one   *)
(* when none does.  The check and the insert are two calls of the facade.  *)
(***************************************************************************)
\* REMINDER_HOURS_BEFORE, in hours
ReminderHoursBefore == <<24, 6, 1>>

\* scheduled_at = deadline - lead time
ScheduledAt(row, l) == row.deadline.n - ReminderHoursBefore[l]

\* the lead time l of the task is still ahead at time t
LeadAhead(row, l, t) == row.deadline.k = "dt" /\ ScheduledAt(row, l) > t

\* the (task, lead time) pairs of a pass over n tasks, task by task
PassPairs(n) ==
  [i \in 1..(n * Len(ReminderHoursBefore)) |->
     [t |-> ((i - 1) \div Len(ReminderHoursBefore)) + 1,
      l |-> ((i - 1) % Len(ReminderHoursBefore)) + 1]]

\* the user a reminder of the task goes to
Recipient(row) ==
  IF row.assignee_id.k = "int" THEN row.assignee_id.n ELSE row.creator_id

Passes(p) == IF p \in DOMAIN sched THEN sched[p].passes ELSE 0

SchedSet(p, rec) ==
  [q \in (DOMAIN sched) \cup {p} |-> IF q = p THEN rec ELSE sched[q]]

\* scheduler p starts a pass over the tasks there are
SchedStart(p) ==
  /\ p \in DOMAIN sched => sched[p].pc = "idle"
  /\ Passes(p) < MaxPasses
  /\ sched' = SchedSet(p, [pc |-> "check", todo |-> PassPairs(Len(tasks)),
                           over |-> Len(tasks), failed |-> FALSE,
                           passes |-> Passes(p) + 1])
  /\ UNCHANGED <<now, users, tasks, notifications, history, sessions,
                 pending, dispatch, inflight, last>>

\* the lead time at hand is not ahead any more: no reminder for it
SchedPast(p) ==
  /\ p \in DOMAIN sched
  /\ sched[p].pc = "check" /\ sched[p].todo # <<>>
  /\ ~LeadAhead(tasks[Head(sched[p].todo).t], Head(sched[p].todo).l, now)
  /\ sched' = [sched EXCEPT ![p].todo = Tail(@)]
  /\ UNCHANGED <<now, users, tasks, notifications, history, sessions,
                 pending, dispatch, inflight, last>>

\* the check: exists_notification_by_task_type(task, 'reminder')
SchedCheck(p, fault) ==
  /\ p \in DOMAIN sched
  /\ sched[p].pc = "check" /\ sched[p].todo # <<>>
  /\ LeadAhead(tasks[Head(sched[p].todo).t], Head(sched[p].todo).l, now)
  /\ ExistsNotificationByTaskTypeCall(Head(sched[p].todo).t, "reminder",
                                      fault)
  /\ sched' = [sched EXCEPT
                 ![p] = IF last'.ret = "False"
                        THEN [@ EXCEPT !.pc = "insert"]
                        ELSE [@ EXCEPT !.todo = Tail(@),
                                       !.failed = @ \/ last'.ret = "raised"]]
  /\ UNCHANGED <<dispatch, inflight>>

\* the insert: create_notification for the lead time at hand
SchedInsert(p, fault) ==
  /\ p \in DOMAIN sched
  /\ sched[p].pc = "insert"
  /\ LET t == Head(sched[p].todo).t
         l == Head(sched[p].todo).l
     IN  CreateNotificationCall(Recipient(tasks[t]), t, "reminder",
                                ScheduledAt(tasks[t], l), fault)
  /\ sched' = [sched EXCEPT
                 ![p] = [@ EXCEPT !.pc = "check", !.todo = Tail(@),
                                  !.failed = @ \/ last'.ret = "raised"]]
  /\ UNCHANGED <<dispatch, inflight>>

\* the pass is over
SchedEnd(p) ==
  /\ p \in DOMAIN sched
  /\ sched[p].pc = "check" /\ sched[p].todo = <<>>
  /\ sched' = [sched EXCEPT ![p].pc = "idle"]
  /\ UNCHANGED <<now, users, tasks, notifications, history, sessions,
                 pending, dispatch, inflight, last>>

\* the tasks the reminders are scheduled for
DeadlineInputs ==
  {[title |-> StrV("a"), description |-> NoneV, creator_id |-> 1,
    assignee_id |-> NoneV, priority |-> StrV("medium"),
    deadline |-> DtV(26)],
   [title |-> StrV("a"), description |-> NoneV, creator_id |-> 1,
    assignee_id |-> IntV(2), priority |-> StrV("medium"),
    deadline |-> DtV(8)],
   [title |-> StrV("a"), description |-> NoneV, creator_id |-> 1,
    assignee_id |-> NoneV, priority |-> StrV("medium"),
    deadline |-> NoneV]}

\* the schedulers S at work, while the reminders that are due are
\* delivered and marked sent
NextSched(S) ==
  \/ Tick
  \/ \E c \in DeadlineInputs : CreateTaskCall(c, "none")
  \/ \E p \in S : SchedStart(p)
  \/ \E p \in S : SchedPast(p)
  \/ \E p \in S, f \in CommitFaults : SchedCheck(p, f)
  \/ \E p \in S, f \in CommitFaults : SchedInsert(p, f)
  \/ \E p \in S : SchedEnd(p)
  \/ \E n \in PendingMatch(notifications, now) :
       MarkNotificationSent(n, "none")

\* the design of section 5: one scheduler
NextSingle == NextSched({1})

SpecSched == Init /\ [][NextSingle]_vars

\* two schedulers started side by side (section 5), each for one pass over
\* the tasks created before: their checks and inserts interleave
Schedulers == {1, 2}

NextPair ==
  \/ \E c \in DeadlineInputs : sched = <<>> /\ CreateTaskCall(c, "none")
  \/ \E p \in Schedulers : Passes(p) = 0 /\ SchedStart(p)
  \/ \E p \in Schedulers : SchedPast(p)
  \/ \E p \in Schedulers : SchedCheck(p, "none")
  \/ \E p \in Schedulers, f \in CommitFaults : SchedInsert(p, f)
  \/ \E p \in Schedulers : SchedEnd(p)

SpecPair == Init /\ [][NextPair]_vars

\* the tasks the queries read: assigned to user 2 or user 1, without a
\* deadline, with one that passes when the clock moves on, with one ahead
QueryTaskInputs ==
  {[title |-> StrV("a"), description |-> NoneV, creator_id |-> 1,
    assignee_id |-> IntV(2), priority |-> StrV("medium"),
    deadline |-> NoneV],
   [title |-> StrV("a"), description |-> StrV("b"), creator_id |-> 1,
    assignee_id |-> IntV(2), priority |-> StrV("medium"),
    deadline |-> DtV(1)],
   [title |-> StrV("b"), description |-> NoneV, creator_id |-> 2,
    assignee_id |-> IntV(1), priority |-> StrV("high"),
    deadline |-> DtV(3)]}

\* the status filter of a query: none, empty, or a status
StatusFilters == {NoneV, StrV(""), StrV("new")}

\* the arguments of search_tasks: the defaults, a text, filters with a page
SearchInputs ==
  {[query_text |-> "", status |-> NoneV, priority |-> NoneV,
    assignee_id |-> NoneV, creator_id |-> NoneV, limit |-> 50, offset |-> 0],
   [query_text |-> "B", status |-> NoneV, priority |-> NoneV,
    assignee_id |-> NoneV, creator_id |-> NoneV, limit |-> 50, offset |-> 0],
   [query_text |-> "", status |-> StrV("new"), priority |-> NoneV,
    assignee_id |-> IntV(2), creator_id |-> NoneV, limit |-> 1, offset |-> 1],
   [query_text |-> "", status |-> NoneV, priority |-> StrV("medium"),
    assignee_id |-> NoneV, creator_id |-> IntV(1), limit |-> 1,
    offset |-> 0]}

\* the queries and the statistics over the tasks the task operations and
\* the sweep leave
NextQuery ==
  \/ Tick
  \/ \E c \in QueryTaskInputs : CreateTaskCall(c, "none")
  \/ \E st \in {"in_progress", "completed"} :
       UpdateTaskStatus(1, st, 1, "none")
  \/ CancelTask(1, 1, "none")
  \/ UpdateOverdueTasks("none")
  \/ \E u \in UserIds, st \in StatusFilters : GetTasksByUser(u, st, "none")
  \/ \E st \in StatusFilters, l \in {NoneV, IntV(1)} :
       GetAllTasks(st, l, 1, "none")
  \/ \E c \in SearchInputs : SearchTasks(c, "none")
  \/ \E f \in CommitFaults : GetOverdueTasks(f)
  \/ \E u \in UserIds : GetUserStats(u, "none")
  \/ GetGeneralStats("none")

SpecQuery == Init /\ [][NextQuery]_vars

\* the status calls made while the sweep runs: (caller, operation, status)
RaceInputs ==
  {<<1, "update_task_status", "completed">>,
   <<1, "update_task_status", "in_progress">>,
   <<2, "cancel_task", "cancelled">>}

\* the sweep side by side with status calls that load and commit in two
\* steps
NextRace ==
  \/ Tick
  \/ \E c \in CreateInputs : c.creator_id = 1 /\ CreateTaskCall(c, "none")
  \/ \E t \in TaskIds, c \in RaceInputs : BeginStatus(c[1], c[2], t, c[3], 1)
  \/ \E p \in Callers, f \in CommitFaults : EndStatus(p, f)
  \/ UpdateOverdueTasks("none")

SpecRace == Init /\ [][NextRace]_vars

\* the sweep as a periodic job: tasks with a deadline are created, their
\* status is set by hand, the clock moves on, and a sweep succeeds or fails
NextLive ==
  \/ Tick
  \/ \E c \in CreateInputs : c.creator_id = 1 /\ CreateTaskCall(c, "none")
  \/ \E t \in TaskIds, st \in {"new", "in_progress", "completed"} :
       UpdateTaskStatus(t, st, 1, "none")
  \/ \E f \in CommitFaults : UpdateOverdueTasks(f)

\* the timer starts the sweep again and again, and a sweep that can change
\* something is not failing for ever
SpecLive ==
  Init /\ [][NextLive]_vars /\ WF_vars(UpdateOverdueTasks("none"))

\* the dispatcher at work on the notifications scheduled for a task
NextDispatch ==
  \/ Tick
  \/ \E c \in CreateInputs : c.creator_id = 1 /\ CreateTaskCall(c, "none")
  \/ \E c \in ScheduleInputs, f \in CommitFaults :
       CreateNotification(c.user_id, c.task_id, c.type, c.scheduled_at, f)
  \/ \E f \in CommitFaults : DispatchTick(f)
  \/ \E ok \in BOOLEAN : DispatchSend(ok)
  \/ \E f \in CommitFaults : DispatchMark(f)
  \/ DispatchSkip

SpecDispatch == Init /\ [][NextDispatch]_vars

Next ==
  \/ Tick
  \/ \E c \in CreateInputs, f \in Faults : CreateTaskCall(c, f)
  \/ \E t \in TaskIds, s \in StatusInputs, f \in CommitFaults :
       UpdateTaskStatus(t, s[1], s[2], f)
  \/ \E t \in TaskIds, f \in CommitFaults :
       CancelTask(t, 1, f)
  \/ \E t \in TaskIds, a \in AssignInputs, f \in CommitFaults :
       AssignTask(t, a[1], a[2], f)
  \/ \E t \in TaskIds, ups \in UpdateInputs, f \in CommitFaults :
       UpdateTaskFields(t, ups, 2, f)
  \/ \E f \in CommitFaults : UpdateOverdueTasks(f)

Spec == Init /\ [][Next]_vars

\* the task operations the sweep works on, beside the calls that write the
\* users and notifications tables
NextStore ==
  \/ Tick
  \/ \E c \in CreateInputs : c.deadline # NoneV /\ CreateTaskCall(c, "none")
  \/ \E t \in TaskIds, s \in StatusInputs :
       s[1] = "completed" /\ UpdateTaskStatus(t, s[1], s[2], "none")
  \/ \E f \in CommitFaults : UpdateOverdueTasks(f)
  \/ \E c \in UserInputs : CreateUser(c.telegram_id, c.role, "none")
  \/ \E c \in UserInputs, f \in CommitFaults :
       UpdateUserActivity(c.telegram_id, f)
  \/ \E c \in NotificationInputs, f \in CommitFaults :
       /\ Len(notifications) = 0
       /\ CreateNotification(c.user_id, c.task_id, c.type, c.scheduled_at, f)
  \/ \E f \in CommitFaults : MarkNotificationSent(1, f)

SpecStore == Init /\ [][NextStore]_vars

\* the dispatch of notifications: a task is created, notifications are
\* scheduled for it, read back when due and marked sent
NextNotify ==
  \/ Tick
  \/ \E c \in CreateInputs : c.creator_id = 1 /\ CreateTaskCall(c, "none")
  \/ \E c \in ScheduleInputs, f \in CommitFaults :
       CreateNotification(c.user_id, c.task_id, c.type, c.scheduled_at, f)
  \/ \E n \in 1..MaxNotifs, f \in CommitFaults : MarkNotificationSent(n, f)
  \/ \E f \in CommitFaults : GetPendingNotifications(f)
  \/ \E t \in TaskIds, f \in CommitFaults : GetTaskById(t, f)

SpecNotify == Init /\ [][NextNotify]_vars

\* create_user called by callers that run side by side
NextUsers ==
  \/ Tick
  \/ \E p \in Callers, c \in RegisterInputs :
       BeginCreateUser(p, c.telegram_id, c.role)
  \/ \E p \in Callers, f \in CommitFaults : EndCreateUser(p, f)

SpecUsers == Init /\ [][NextUsers]_vars

(***************************************************************************)
(* Properties                                                              *)
(***************************************************************************)
\* the deadline of the row is set and has passed at time t
DeadlinePassed(row, t) == row.deadline.k = "dt" /\ row.deadline.n < t

SweepRan == last.op = "update_overdue_tasks" /\ last.ret = "ok"

\* C1: in every reachable state, each task's completed_at is non-null if and
\* only if its status is 'completed'.
C1_CompletedAtIffCompleted ==
  \A i \in DOMAIN tasks :
    (tasks[i].completed_at # NoneV) <=> (tasks[i].status = "completed")

\* C2: right after a successful run of update_overdue_tasks at time now,
\* every task whose deadline is set and earlier than now and whose status is
\* neither completed nor cancelled has status 'overdue'.
C2_SweepMarksOverdue ==
  SweepRan =>
    \A i \in DOMAIN tasks :
      (DeadlinePassed(tasks[i], now)
         /\ tasks[i].status \notin {"completed", "cancelled"})
        => tasks[i].status = "overdue"

\* a sweep has just turned an in_progress task and a new task overdue
C2_Witness ==
  /\ SweepRan
  /\ last.n = 2
  /\ \E i \in DOMAIN tasks :
       /\ tasks[i].status = "overdue" /\ DeadlinePassed(tasks[i], now)
       /\ \E h \in 1..Len(history) :
            /\ history[h].task_id = i
            /\ history[h].new_value = StrV("in_progress")

\* C3: update_overdue_tasks is idempotent: in the state a successful run
\* leaves, a second run at the same clock value matches no task and its
\* bulk update leaves every task field as it is.
C3_SweepIdempotent ==
  SweepRan =>
    /\ OverdueMatch(tasks, now) = {}
    /\ OverdueUpdate(tasks, now) = tasks

\* a sweep has just matched a task, which a second run would meet overdue
C3_Witness ==
  /\ SweepRan
  /\ last.n >= 1
  /\ \E i \in DOMAIN tasks :
       /\ tasks[i].status = "overdue"
       /\ tasks[i].updated_at = now
       /\ DeadlinePassed(tasks[i], now)

\* C4: update_overdue_tasks writes no task_history entry and changes only the
\* status and updated_at of the tasks it matches: users, notifications,
\* history, every other field of those tasks, and every task that is
\* completed, cancelled, already overdue or has a null or not-yet-passed
\* deadline, are left unchanged.
C4_SweepStep ==
  last'.op = "update_overdue_tasks" =>
    /\ history' = history
    /\ users' = users
    /\ notifications' = notifications
    /\ now' = now
    /\ DOMAIN tasks' = DOMAIN tasks
    /\ \A i \in DOMAIN tasks :
         IF /\ last'.ret = "ok"
            /\ DeadlinePassed(tasks[i], now)
            /\ tasks[i].status \notin {"completed", "cancelled", "overdue"}
         THEN /\ tasks'[i].status = "overdue"
              /\ tasks'[i].updated_at = now
              /\ tasks'[i].title = tasks[i].title
              /\ tasks'[i].description = tasks[i].description
              /\ tasks'[i].creator_id = tasks[i].creator_id
              /\ tasks'[i].assignee_id = tasks[i].assignee_id
              /\ tasks'[i].priority = tasks[i].priority
              /\ tasks'[i].deadline = tasks[i].deadline
              /\ tasks'[i].created_at = tasks[i].created_at
              /\ tasks'[i].completed_at = tasks[i].completed_at
         ELSE tasks'[i] = tasks[i]

CreatedEntries(i) ==
  {h \in 1..Len(history) :
     history[h].task_id = i /\ history[h].action = "created"}

\* C5 (states): no state holds a task without exactly one 'created' entry
\* by its creator, or a 'created' entry without its task.
C5_TaskAndEntry ==
  /\ \A i \in DOMAIN tasks :
       /\ Cardinality(CreatedEntries(i)) = 1
       /\ \A h \in CreatedEntries(i) : history[h].user_id = tasks[i].creator_id
  /\ \A h \in 1..Len(history) :
       history[h].action = "created" => history[h].task_id \in DOMAIN tasks

\* C5 (steps): a successful create_task adds exactly one task, with status
\* 'new', null completed_at and the given creator, and exactly one
\* task_history entry, 'created', for that task and creator, and returns
\* the id of the new task.
C5_CreateStep ==
  (last'.op = "create_task" /\ last'.ret = "id") =>
  \A c \in CreateInputs, f \in Faults :
    CreateTaskCall(c, f) =>
      /\ last'.tid \notin DOMAIN tasks
      /\ DOMAIN tasks' = DOMAIN tasks \cup {last'.tid}
      /\ \A i \in DOMAIN tasks : tasks'[i] = tasks[i]
      /\ tasks'[last'.tid].status = "new"
      /\ tasks'[last'.tid].completed_at = NoneV
      /\ tasks'[last'.tid].creator_id = c.creator_id
      /\ Len(history') = Len(history) + 1
      /\ SubSeq(history', 1, Len(history)) = history
      /\ history'[Len(history')].action = "created"
      /\ history'[Len(history')].task_id = last'.tid
      /\ history'[Len(history')].user_id = c.creator_id

\* C5: a successful create_task commits one new task and its one 'created'
\* entry together and returns the task's id; no state shows one of the two
\* without the other.
C5_CreateAtomic == []C5_TaskAndEntry /\ [][C5_CreateStep]_vars

\* a second task has just been created, by creator 2
C5_Witness ==
  /\ last.op = "create_task" /\ last.ret = "id" /\ last.tid = 2
  /\ DOMAIN tasks = {1, 2}
  /\ tasks[2].creator_id = 2
  /\ history[Len(history)].task_id = 2

\* C6: a storage failure at any point of create_task (the flush of the task
\* row, the insertion of the history row, the commit) makes the call raise
\* and leaves tasks and task_history exactly as before the call.
C6_CreateFailureStep ==
  last'.op = "create_task" =>
  \A c \in CreateInputs, f \in Faults :
    (CreateTaskCall(c, f) /\ (f # "none" \/ c.priority.s \notin Priorities)) =>
      /\ last'.ret = "raised"
      /\ tasks' = tasks
      /\ history' = history

C6_CreateFailureRollsBack == [][C6_CreateFailureStep]_vars

\* create_task has just raised, with a task and its history in the tables
C6_Witness ==
  /\ last.op = "create_task" /\ last.ret = "raised"
  /\ DOMAIN tasks = {1}
  /\ Len(history) >= 1

\* C7: a successful update_task_status sets completed_at to a non-null value
\* when the status passed is 'completed' and leaves it as it was for every
\* other status; no other step changes the completed_at of a task.
C7_CompletedAtStep ==
  /\ (last'.op = "update_task_status" /\ last'.ret = "True"
        /\ last'.tid \in DOMAIN tasks) =>
       \A s \in StatusInputs, f \in CommitFaults :
         UpdateTaskStatus(last'.tid, s[1], s[2], f) =>
           IF s[1] = "completed"
           THEN tasks'[last'.tid].completed_at # NoneV
           ELSE tasks'[last'.tid].completed_at = tasks[last'.tid].completed_at
  /\ \A i \in DOMAIN tasks :
       tasks'[i].completed_at # tasks[i].completed_at =>
         /\ last'.op = "update_task_status" /\ last'.tid = i
         /\ last'.ret = "True"
         /\ tasks'[i].status = "completed"

C7_CompletedAtOnlyOnCompleted == [][C7_CompletedAtStep]_vars

\* update_task_status has just moved a completed task to another status
C7_Witness ==
  /\ last.op = "update_task_status" /\ last.ret = "True"
  /\ last.tid \in DOMAIN tasks
  /\ tasks[last.tid].status # "completed"
  /\ tasks[last.tid].completed_at # NoneV

\* C8: for an existing task update_task_status accepts each of the five
\* statuses whatever the current status, sets the task's status to it and
\* appends exactly one 'status_changed' entry whose old_value is the status
\* before the call and whose new_value is the status passed.
C8_StatusStep ==
  (last'.op = "update_task_status" /\ last'.tid \in DOMAIN tasks) =>
  \A s \in StatusInputs, f \in CommitFaults :
    UpdateTaskStatus(last'.tid, s[1], s[2], f) =>
      /\ (f = "none" /\ s[1] \in Statuses) => last'.ret = "True"
      /\ last'.ret = "True" =>
           /\ tasks'[last'.tid].status = s[1]
           /\ \A i \in DOMAIN tasks \ {last'.tid} : tasks'[i] = tasks[i]
           /\ history' = Append(history,
                [task_id |-> last'.tid, user_id |-> s[2],
                 action |-> "status_changed",
                 old_value |-> StrV(tasks[last'.tid].status),
                 new_value |-> StrV(s[1]), created_at |-> now])

C8_StatusSetAndLogged == [][C8_StatusStep]_vars

\* update_task_status has just moved a cancelled task to in_progress
C8_Witness ==
  /\ last.op = "update_task_status" /\ last.ret = "True"
  /\ Len(history) >= 1
  /\ history[Len(history)].action = "status_changed"
  /\ history[Len(history)].old_value = StrV("cancelled")
  /\ history[Len(history)].new_value = StrV("in_progress")
  /\ tasks[last.tid].status = "in_progress"

\* C9: update_task_fields returns False and changes nothing whenever the task
\* id does not exist, for every change set passed, the empty one and one
\* with only non-permitted keys included.
C9_FieldsStep ==
  (last'.op = "update_task_fields" /\ last'.tid \notin DOMAIN tasks) =>
  \A ups \in UpdateInputs, f \in CommitFaults :
    UpdateTaskFields(last'.tid, ups, last'.uid, f) =>
      /\ last'.ret = "False"
      /\ tasks' = tasks
      /\ history' = history

C9_FieldsNotFoundFalse == [][C9_FieldsStep]_vars

\* the entries a step appends to task_history
Appended == SubSeq(history', Len(history) + 1, Len(history'))

\* the appended entries that log field F
FieldEntries(F) ==
  {h \in 1..Len(Appended) : Appended[h].action = F \o "_updated"}

\* the dict passed has the key F
Supplied(ups, F) == \E j \in 1..Len(ups) : ups[j].key = F

\* what a successful update_task_fields on task t does, with one entry for
\* each permitted field that Logged(F) holds of
FieldsLogged(t, ups, u, Logged(_)) ==
  /\ DOMAIN tasks' = DOMAIN tasks
  /\ \A i \in DOMAIN tasks \ {t} : tasks'[i] = tasks[i]
  /\ Len(history') >= Len(history)
  /\ SubSeq(history', 1, Len(history)) = history
  /\ \A j \in 1..Len(ups) :
       ups[j].key \in AllowedFields =>
         GetAttr(tasks'[t], ups[j].key) = ups[j].val
  /\ \A F \in AllowedFields :
       /\ Cardinality(FieldEntries(F)) = (IF Logged(F) THEN 1 ELSE 0)
       /\ \A h \in FieldEntries(F) :
            /\ Appended[h].task_id = t
            /\ Appended[h].user_id = u
            /\ Appended[h].old_value = TextOrNone(GetAttr(tasks[t], F))
            /\ Appended[h].new_value = TextOrNone(GetAttr(tasks'[t], F))
       /\ ~Supplied(ups, F) => GetAttr(tasks'[t], F) = GetAttr(tasks[t], F)
  /\ Len(Appended) = Cardinality({F \in AllowedFields : Logged(F)})
  /\ tasks'[t].updated_at = now
  /\ tasks'[t].status = tasks[t].status
  /\ tasks'[t].creator_id = tasks[t].creator_id
  /\ tasks'[t].completed_at = tasks[t].completed_at

\* the step is a successful update_task_fields
FieldsReturnedTrue == last'.op = "update_task_fields" /\ last'.ret = "True"


\* C10 as claimed: for an existing task a successful update_task_fields
\* appends one entry per permitted field whose value it changes (old_value
\* the text of the value before, new_value of the value after), sets each
\* permitted field to the value supplied, stamps updated_at, and appends no
\* entry for a field whose value it does not change or for a key outside
\* the permitted set.
C10_ChangedStep ==
  (FieldsReturnedTrue /\ last'.tid \in DOMAIN tasks) =>
  \A ups \in UpdateInputs, f \in CommitFaults :
    UpdateTaskFields(last'.tid, ups, last'.uid, f) =>
      FieldsLogged(last'.tid, ups, last'.uid,
        LAMBDA F : GetAttr(tasks'[last'.tid], F) # GetAttr(tasks[last'.tid], F))

C10_EntryPerChangedField == [][C10_ChangedStep]_vars

\* C10 as amended: for an existing task a successful update_task_fields
\* whose change set has a permitted key appends exactly one entry per
\* permitted key of the change set, whether or not the value supplied
\* differs from the current one (old_value the text of the value before the
\* call, new_value the text of the value supplied), sets each such field to
\* the value supplied, stamps updated_at, and appends no entry for a
\* permitted field absent from the change set or for a key outside the
\* permitted set; with no permitted key in the change set it changes
\* nothing, updated_at included.
C10_SuppliedStep ==
  (FieldsReturnedTrue /\ last'.tid \in DOMAIN tasks) =>
  \A ups \in UpdateInputs, f \in CommitFaults :
    UpdateTaskFields(last'.tid, ups, last'.uid, f) =>
      IF NoChanges(ups)
      THEN tasks' = tasks /\ history' = history
      ELSE FieldsLogged(last'.tid, ups, last'.uid,
                        LAMBDA F : Supplied(ups, F))

C10_EntryPerSuppliedField == [][C10_SuppliedStep]_vars

\* update_task_fields has just logged a title that it did not change
C10_Witness ==
  /\ last.op = "update_task_fields" /\ last.ret = "True" /\ last.n = 1
  /\ history[Len(history)].action = "title_updated"
  /\ history[Len(history)].old_value = history[Len(history)].new_value
  /\ tasks[last.tid].updated_at = now

\* C11: a task's creator never changes after creation: a step gives a new
\* task the creator_id passed to create_task and leaves the creator_id of
\* every task that exists as it is; update_task_fields ignores a
\* creator_id, status or completed_at key of the change set.
C11_CreatorStep ==
  /\ \A i \in DOMAIN tasks :
       /\ i \in DOMAIN tasks'
       /\ tasks'[i].creator_id = tasks[i].creator_id
  /\ \A i \in DOMAIN tasks' \ DOMAIN tasks :
       /\ last'.op = "create_task" /\ last'.tid = i
       /\ tasks'[i].creator_id = last'.uid
  /\ (FieldsReturnedTrue /\ last'.tid \in DOMAIN tasks) =>
       /\ tasks'[last'.tid].status = tasks[last'.tid].status
       /\ tasks'[last'.tid].completed_at = tasks[last'.tid].completed_at

C11_CreatorImmutable == [][C11_CreatorStep]_vars

\* update_task_fields has just returned True without an entry, called by
\* user 2 on a task of creator 1 that was assigned and edited before
C11_Witness ==
  /\ last.op = "update_task_fields" /\ last.ret = "True" /\ last.n = 0
  /\ last.tid \in DOMAIN tasks
  /\ tasks[last.tid].creator_id = 1 /\ last.uid = 2
  /\ \E h \in 1..Len(history) :
       history[h].task_id = last.tid /\ history[h].action = "assigned"
  /\ \E h \in 1..Len(history) :
       history[h].task_id = last.tid /\ history[h].action = "title_updated"

\* C12: for an existing task a successful assign_task(task, a, user) sets
\* assignee_id to a and appends exactly one 'assigned' entry whose old_value
\* is the text of the previous assignee id, null when the task had no
\* assignee, and whose new_value is the text of a; status, completed_at and
\* every other task are unchanged.
C12_AssignStep ==
  (last'.op = "assign_task" /\ last'.ret = "True"
     /\ last'.tid \in DOMAIN tasks) =>
  \A a \in AssignInputs, f \in CommitFaults :
    AssignTask(last'.tid, a[1], a[2], f) =>
      /\ tasks'[last'.tid].assignee_id = IntV(a[1])
      /\ tasks'[last'.tid].status = tasks[last'.tid].status
      /\ tasks'[last'.tid].completed_at = tasks[last'.tid].completed_at
      /\ \A i \in DOMAIN tasks \ {last'.tid} : tasks'[i] = tasks[i]
      /\ history' = Append(history,
           [task_id |-> last'.tid, user_id |-> a[2], action |-> "assigned",
            old_value |-> IF tasks[last'.tid].assignee_id = NoneV THEN NoneV
                          ELSE StrV(ToString(tasks[last'.tid].assignee_id.n)),
            new_value |-> StrV(ToString(a[1])), created_at |-> now])

C12_AssignSetAndLogged == [][C12_AssignStep]_vars

\* assign_task has just moved a task from assignee 1 to assignee 2
C12_Witness ==
  /\ last.op = "assign_task" /\ last.ret = "True"
  /\ tasks[last.tid].assignee_id = IntV(2)
  /\ history[Len(history)].action = "assigned"
  /\ history[Len(history)].old_value = StrV("1")
  /\ history[Len(history)].new_value = StrV("2")

\* C13: whenever update_task_fields, update_task_status, assign_task or
\* cancel_task returns False (task not found, or a storage failure such as
\* a rejected status or priority at commit), tasks and task_history are as
\* they were before the call.
C13_FalseStep ==
  (/\ last'.op \in {"update_task_fields", "update_task_status",
                     "assign_task", "cancel_task"}
   /\ last'.ret = "False") =>
    /\ tasks' = tasks
    /\ history' = history

C13_FalseChangesNothing == [][C13_FalseStep]_vars

\* update_task_fields has just returned False for a task that exists
C13_Witness ==
  /\ last.op = "update_task_fields" /\ last.ret = "False"
  /\ last.tid \in DOMAIN tasks
  /\ Len(history) >= 2

\* C14: after every call, whether it returned, found nothing or met a
\* storage exception, the session it opened is closed: no session is open
\* between two calls.
C14_NoOpenSession == sessions = 0

\* update_user_activity has just let a storage exception through, with a
\* sent notification in the table
C14_Witness ==
  /\ sessions = 0
  /\ last.op = "update_user_activity" /\ last.ret = "raised"
  /\ \E n \in DOMAIN notifications : notifications[n].is_sent

\* C15 (states): no two users share a telegram_id.
C15_UniqueTelegramId ==
  \A i, j \in DOMAIN users :
    users[i].telegram_id = users[j].telegram_id => i = j

\* the telegram_id is registered
Registered(telegram_id) ==
  \E i \in DOMAIN users : users[i].telegram_id = telegram_id

\* C15 (steps): a create_user call that ends with its telegram_id registered
\* returns False and leaves users unchanged; one that ends with it not
\* registered, a role the table accepts and no storage failure appends one
\* user with that telegram_id and returns True.
C15_CreateUserStep ==
  \A p \in (DOMAIN pending) \ (DOMAIN pending') :
    \A f \in CommitFaults :
      EndCreateUser(p, f) =>
        IF Registered(pending[p].telegram_id)
        THEN users' = users /\ last'.ret = "False"
        ELSE (f = "none" /\ pending[p].role \in Roles) =>
               /\ last'.ret = "True"
               /\ Len(users') = Len(users) + 1
               /\ SubSeq(users', 1, Len(users)) = users
               /\ users'[Len(users')].telegram_id = pending[p].telegram_id

\* C15: create_user with a registered telegram_id fails and changes
\* nothing, with an unregistered one inserts one user and succeeds, and
\* under every interleaving of create_user calls no two users share a
\* telegram_id.
C15_CreateUserUnique == []C15_UniqueTelegramId /\ [][C15_CreateUserStep]_vars

\* a create_user call has just been refused for the telegram_id of the one
\* user registered, while another caller is inside create_user with the
\* same telegram_id
C15_Witness ==
  /\ last.op = "create_user" /\ last.ret = "False"
  /\ Len(users) = 1 /\ users[1].telegram_id = 100
  /\ sessions = 1
  /\ \E p \in DOMAIN pending :
       pending[p] = [telegram_id |-> 100, role |-> "user"]

\* C16: what create_user returns for a telegram_id that is registered
\* differs from what it returns when the storage fails on a telegram_id
\* that is not, so that a caller can tell the two apart.
C16_DuplicateDistinct ==
  \A i \in DOMAIN users, c \in RegisterInputs :
    (~Registered(c.telegram_id) /\ c.role \in Roles) =>
      CreateUserReturn(users[i].telegram_id, users[i].role, "none")
        # CreateUserReturn(c.telegram_id, c.role, "commit")

\* C17: a storage failure inside a query or a simple update is never
\* propagated as an exception: only create_task and create_notification
\* raise.
C17_OnlyCreatesRaise ==
  last.ret = "raised" => last.op \in {"create_task", "create_notification"}

\* C18: task_history is append-only: every step keeps the entries committed
\* before it, unchanged and in place, and at most appends entries.
C18_HistoryStep ==
  /\ Len(history') >= Len(history)
  /\ SubSeq(history', 1, Len(history)) = history

C18_HistoryAppendOnly == [][C18_HistoryStep]_vars

\* three entries of three kinds are in task_history, the last appended at
\* a later reading of the clock than the second
C18_Witness ==
  /\ Len(history) = 3
  /\ history[1].action = "created"
  /\ history[2].action = "status_changed"
  /\ history[3].action = "assigned"
  /\ history[3].created_at > history[2].created_at

\* C19: a notification is immutable once sent: no step changes a field of a
\* notification whose is_sent is true; a second mark_notification_sent
\* leaves its sent_at as it is.
C19_SentStep ==
  \A n \in DOMAIN notifications :
    notifications[n].is_sent =>
      /\ n \in DOMAIN notifications'
      /\ notifications'[n] = notifications[n]

C19_SentImmutable == [][C19_SentStep]_vars

\* the list get_pending_notifications has just returned
Returned == last.rows

\* C20: get_pending_notifications at time now returns exactly the
\* notifications with is_sent false and scheduled_at <= now, each once,
\* ordered by scheduled_at ascending.
C20_PendingExactAndOrdered ==
  (last.op = "get_pending_notifications" /\ last.ret = "list") =>
    /\ \A n \in DOMAIN notifications :
         (\E k \in 1..Len(Returned) : Returned[k] = n)
           <=> (~notifications[n].is_sent
                  /\ notifications[n].scheduled_at <= now)
    /\ \A k \in 1..Len(Returned) : Returned[k] \in DOMAIN notifications
    /\ \A j, k \in 1..Len(Returned) :
         /\ Returned[j] = Returned[k] => j = k
         /\ j < k => notifications[Returned[j]].scheduled_at
                       <= notifications[Returned[k]].scheduled_at

\* get_pending_notifications has just returned notification 2 before
\* notification 1, which was created first and is due later
C20_Witness ==
  /\ last.op = "get_pending_notifications" /\ last.ret = "list"
  /\ Returned = <<2, 1>>
  /\ notifications[2].scheduled_at < notifications[1].scheduled_at

\* a notification goes from unsent to sent only in the step that follows
\* the successful delivery of that notification
MarkedAfterDelivery ==
  \A n \in DOMAIN notifications :
    (~notifications[n].is_sent /\ notifications'[n].is_sent) =>
      /\ dispatch.outcome = "ok"
      /\ dispatch.queue # <<>> /\ Head(dispatch.queue) = n

\* after a failed delivery the notification is unsent and due as before
FailureLeavesPending ==
  (dispatch.outcome = "failed" /\ dispatch'.outcome = "none") =>
    /\ ~notifications'[Head(dispatch.queue)].is_sent
    /\ Head(dispatch.queue) \in PendingMatch(notifications', now')
    /\ Head(dispatch.queue) \in dispatch'.failed

\* the list a tick starts with holds every unsent notification that is due
TickFetchesPending ==
  (dispatch.queue = <<>> /\ last'.op = "get_pending_notifications"
     /\ last'.ret = "list" /\ dispatch' # dispatch) =>
    Ids(dispatch'.queue) = PendingMatch(notifications, now)

\* a notification leaves the list of the tick only as its first element
\* and only once its delivery was attempted
RestAttempted ==
  (dispatch.queue # <<>> /\ dispatch'.queue # dispatch.queue) =>
    /\ dispatch.outcome # "none"
    /\ dispatch'.queue = Tail(dispatch.queue)

\* C21: in a dispatch tick a notification is marked sent only after its
\* delivery succeeded; a failed delivery leaves the notification unsent
\* and due, so the next tick's get_pending_notifications returns it again;
\* the other notifications of the tick are still attempted
C21_AtLeastOnce ==
  [][/\ MarkedAfterDelivery
     /\ FailureLeavesPending
     /\ TickFetchesPending
     /\ RestAttempted]_vars

\* a tick has just fetched a notification again whose delivery failed in
\* an earlier tick, while another notification was delivered and marked
C21_Witness ==
  /\ last.op = "get_pending_notifications" /\ last.ret = "list"
  /\ \E n \in dispatch.failed, m \in DOMAIN notifications :
       /\ n \in Ids(dispatch.queue)
       /\ ~notifications[n].is_sent
       /\ m # n /\ notifications[m].is_sent

\* the reminder notifications of task t
Reminders(rows, t) ==
  {i \in DOMAIN rows : rows[i].task_id = t /\ rows[i].type = "reminder"}

\* scheduler p ends a pass in which no storage call failed
PassEnds(p) ==
  /\ p \in DOMAIN sched
  /\ sched[p].pc = "check" /\ sched'[p].pc = "idle"
  /\ ~sched[p].failed

\* C22: when a pass of the single scheduler ends, the first or a later
\* one, every task of the pass whose deadline is in the future has exactly
\* one unsent reminder for each lead time
C22_OnePerLeadTime ==
  [][PassEnds(1) =>
       \A t \in 1..sched[1].over :
         (tasks[t].deadline.k = "dt" /\ tasks[t].deadline.n > now) =>
           \A l \in DOMAIN ReminderHoursBefore :
             Cardinality({i \in Reminders(notifications, t) :
                /\ ~notifications[i].is_sent
                /\ notifications[i].scheduled_at = ScheduledAt(tasks[t], l)})
               = 1]_vars

\* C23: with one scheduler that checks exists_notification_by_task_type
\* before every create_notification, no task ever has more than one
\* reminder notification, sent or unsent
C23_AtMostOneReminder ==
  \A t \in DOMAIN tasks : Cardinality(Reminders(notifications, t)) <= 1

\* the check of a later pass has just found the reminder of the task,
\* which was marked sent before
C23_Witness ==
  /\ last.op = "exists_notification_by_task_type" /\ last.ret = "True"
  /\ 1 \in DOMAIN sched /\ sched[1].passes = 2
  /\ \E i \in Reminders(notifications, last.tid) : notifications[i].is_sent

\* C24: the insert of a scheduler is a step of its own, after its check,
\* and the storage accepts it whatever reminders the task has by then:
\* with two schedulers a task can get two unsent reminders
C24_InsertNotGuarded ==
  [][\A p \in Schedulers :
       SchedInsert(p, "none") =>
         /\ sched[p].pc = "insert"
         /\ Len(notifications') = Len(notifications) + 1
         /\ Reminders(notifications', Head(sched[p].todo).t)
              = Reminders(notifications, Head(sched[p].todo).t)
                  \cup {Len(notifications')}]_vars

\* both schedulers have checked and inserted, and a task has two unsent
\* reminders
C24_Witness ==
  /\ DOMAIN sched = Schedulers
  /\ \E t \in DOMAIN tasks :
       Cardinality({i \in Reminders(notifications, t) :
                      ~notifications[i].is_sent}) = 2

\* the list q of task ids is in the contract order: deadline ascending,
\* no deadline last, created_at descending among equal deadlines
InContractOrder(q) ==
  \A j, k \in DOMAIN q :
    j < k =>
      /\ tasks[q[j]].deadline.k = "none" => tasks[q[k]].deadline.k = "none"
      /\ (tasks[q[j]].deadline.k = "dt" /\ tasks[q[k]].deadline.k = "dt")
           => tasks[q[j]].deadline.n <= tasks[q[k]].deadline.n
      /\ tasks[q[j]].deadline = tasks[q[k]].deadline
           => tasks[q[j]].created_at >= tasks[q[k]].created_at

\* the list q holds each of the tasks S once and nothing else
ListsExactly(q, S) == Ids(q) = S /\ Len(q) = Cardinality(S)

C26_OverdueContractOrder ==
  (last.op = "get_overdue_tasks" /\ last.ret = "list") =>
    InContractOrder(last.rows)

\* the number of the tasks S whose status is one of St
CountIn(S, St) == Cardinality({i \in S : tasks[i].status \in St})

\* the counts c are those of the tasks S, and they add up with the
\* cancelled tasks of S to the total
StatsOf(c, S) ==
  /\ c[1] = Cardinality(S)
  /\ c[2] = CountIn(S, {"completed"})
  /\ c[3] = CountIn(S, {"overdue"})
  /\ c[4] = CountIn(S, {"new", "in_progress"})
  /\ c[2] + c[3] + c[4] + CountIn(S, {"cancelled"}) = c[1]

\* C27: get_user_stats(u) returns the number of tasks assigned to u, and of
\* those the completed, the overdue and the active (new or in_progress)
\* ones, which add up with u's cancelled tasks to the total;
\* get_general_stats returns the same four counts over all tasks
C27_StatsCounts ==
  /\ (last.op = "get_user_stats" /\ last.ret = "dict") =>
       StatsOf(last.rows, {i \in DOMAIN tasks :
                             /\ tasks[i].assignee_id.k = "int"
                             /\ tasks[i].assignee_id.n = last.uid})
  /\ (last.op = "get_general_stats" /\ last.ret = "dict") =>
       StatsOf(last.rows, DOMAIN tasks)

\* get_user_stats has just counted the two tasks of user 2, one overdue
\* and one cancelled
C27_Witness ==
  /\ last.op = "get_user_stats" /\ last.ret = "dict" /\ last.uid = 2
  /\ last.rows = <<2, 0, 1, 0>>
  /\ \E i \in DOMAIN tasks : tasks[i].status = "cancelled"

\* the 'status_changed' entries of task t, by their place in the log
StatusEntries(t) ==
  {i \in DOMAIN history :
     history[i].task_id = t /\ history[i].action = "status_changed"}

\* the last of the entries E before place i, or 0
Previous(E, i) ==
  IF \E j \in E : j < i
  THEN CHOOSE j \in E : j < i /\ \A k \in E : k < i => k <= j
  ELSE 0

\* C28: the status of a task is the new_value of its most recent
\* 'status_changed' entry, or 'new' when it has none, and the old_value of
\* each such entry is the new_value of the one before, or 'new'
C28_StatusFromHistory ==
  \A t \in DOMAIN tasks :
    /\ StrV(tasks[t].status) =
         IF StatusEntries(t) = {} THEN StrV("new")
         ELSE history[Previous(StatusEntries(t), Len(history) + 1)].new_value
    /\ \A i \in StatusEntries(t) :
         history[i].old_value =
           IF Previous(StatusEntries(t), i) = 0 THEN StrV("new")
           ELSE history[Previous(StatusEntries(t), i)].new_value

\* the statuses the sweep has to leave alone
Finished == {"completed", "cancelled"}

\* C29: however the sweep interleaves with status calls that load a task
\* and commit later, a sweep changes no task whose committed status is
\* completed or cancelled when its bulk UPDATE runs, and no step turns a
\* task committed as completed or cancelled into overdue
C29_SweepSparesFinished ==
  [][\A t \in DOMAIN tasks :
       tasks[t].status \in Finished =>
         /\ tasks'[t].status # "overdue"
         /\ last'.op = "update_overdue_tasks" => tasks'[t] = tasks[t]]_vars

\* a call that loaded a task at time 1 has committed it as completed at
\* time 2, after the deadline, and the sweep that ran next has left it
C29_Witness ==
  /\ last.op = "update_overdue_tasks" /\ last.ret = "ok"
  /\ \E t \in DOMAIN tasks :
       /\ tasks[t].status = "completed"
       /\ DeadlinePassed(tasks[t], now)
       /\ tasks[t].completed_at = DtV(1)
       /\ \E i \in StatusEntries(t) :
            /\ history[i].new_value = StrV("completed")
            /\ history[i].created_at = 2

\* the deadline of task t has passed and the task is still open
OpenPastDeadline(t) ==
  /\ t \in DOMAIN tasks
  /\ DeadlinePassed(tasks[t], now)
  /\ tasks[t].status \in {"new", "in_progress"}

\* C30: with a sweep that keeps running and succeeds, a task whose
\* deadline has passed and whose status is new or in_progress gets to
\* overdue, completed or cancelled, and a sweep that succeeds marks every
\* such task overdue, also one that update_task_status has set back from
\* overdue to new or in_progress
C30_EventuallyOverdue ==
  /\ \A t \in TaskIds :
       OpenPastDeadline(t) ~>
         (/\ t \in DOMAIN tasks
          /\ tasks[t].status \in {"overdue", "completed", "cancelled"})
  /\ [][(last'.op = "update_overdue_tasks" /\ last'.ret = "ok") =>
          \A t \in TaskIds :
            OpenPastDeadline(t) => tasks'[t].status = "overdue"]_vars

\* a sweep has just marked a task overdue that update_task_status had set
\* back from overdue to new or in_progress
C30_Witness ==
  /\ last.op = "update_overdue_tasks" /\ last.ret = "ok" /\ last.n = 1
  /\ \E t \in DOMAIN tasks :
       /\ tasks[t].status = "overdue"
       /\ StatusEntries(t) # {}
       /\ LET e == history[Previous(StatusEntries(t), Len(history) + 1)]
          IN  /\ e.old_value = StrV("overdue")
              /\ e.new_value \in {StrV("new"), StrV("in_progress")}
====
